---- MODULE Spec2Model ----
(***************************************************************************)
(* Model of the STOCKAI_WEB python services:                               *)
(*   server/python/radapt.py              the six-phase RADAPT pipeline    *)
(*   server/python/prediction_service.py  forecast engine, company         *)
(*                                        analyzer and batch aggregator    *)
(*                                                                         *)
(* Python dicts are TLA+ records (a key is present iff it is in DOMAIN).   *)
(* Floating point quantities are carried as exact integers in a stated     *)
(* unit: RADAPT scores and confidences in thousandths (0.8 is 800).        *)
(* Timestamps (datetime.now().isoformat()) are left out of every result.   *)
(***************************************************************************)
EXTENDS Integers, Sequences, FiniteSets, TLC

VARIABLES
    pc,            \* position of the running program
    stock_data,    \* radapt: the input series, a list of dicts
    recognition,   \* radapt: result of radapt_recognition
    assimilation,  \* radapt: result of radapt_assimilation
    decision,      \* radapt: result of radapt_decision
    action,        \* radapt: result of radapt_action
    past,          \* radapt: result of radapt_past_analysis
    radapt_out,    \* radapt: value returned by process_radapt
    phases_run,    \* radapt: the phases executed so far, in order
    prices,        \* forecast: the price list handed to predict_with_arima
    days_ahead,    \* forecast: the horizon handed to predict_with_arima
    fit,           \* forecast: what the statsmodels ARIMA fit does
    forecast_out,  \* forecast: what predict_with_arima returned or raised
    request,       \* batch: the command line handed to main
    today,         \* batch: the current date, a day number
    results,       \* batch: the results dict of main, company -> entry
    idx,           \* batch: how many companies the loop of main has done
    batch_out,     \* batch: the JSON document main printed
    exit_code,     \* batch: the exit status of the process
    volatility_in,   \* analysis: the annualized volatility the risk rules get
    risk_out,        \* analysis: risk_level, the bucket of lines 134-139
    confidence_out,  \* analysis: the prediction confidence reported
    technical_out,   \* analysis: what calculate_technical_indicators returned
    missing_packages,    \* health: the packages check_dependencies misses
    data_test_success,   \* health: first value returned by test_data_fetching
    model_test_success,  \* health: first value returned by test_model_libraries
    health_status,       \* health: the health_status dict of main
    health_exit          \* health: the exit status of health_check.py

radapt_vars == <<stock_data, recognition, assimilation, decision, action, past,
                 radapt_out, phases_run>>

forecast_vars == <<prices, days_ahead, fit, forecast_out>>

batch_vars == <<request, today, results, idx, batch_out, exit_code>>

analysis_vars == <<volatility_in, risk_out, confidence_out, technical_out>>

health_vars == <<missing_packages, data_test_success, model_test_success,
                 health_status, health_exit>>

vars == <<pc, radapt_vars, forecast_vars, batch_vars, analysis_vars, health_vars>>

\* A value standing for "not computed yet".
None == [none |-> TRUE]

\* The variables of a program that is not the one running.
RadaptIdle ==
    /\ stock_data = <<>> /\ recognition = None /\ assimilation = None
    /\ decision = None /\ action = None /\ past = None /\ radapt_out = None
    /\ phases_run = <<>>

ForecastIdle ==
    prices = <<>> /\ days_ahead = 0 /\ fit = None /\ forecast_out = None

BatchIdle ==
    /\ request = None /\ today = 0 /\ results = <<>> /\ idx = 0
    /\ batch_out = None /\ exit_code = -1

AnalysisIdle ==
    /\ volatility_in = 0 /\ risk_out = None /\ confidence_out = None
    /\ technical_out = None

HealthIdle ==
    /\ missing_packages = {} /\ data_test_success = None
    /\ model_test_success = None /\ health_status = None /\ health_exit = -1

\* The symbol handed to process_radapt.
Symbol == "AAPL"

(***************************************************************************)
(* Generic helpers                                                         *)
(***************************************************************************)

\* dict.get(k, default)
Get(d, k, default) == IF k \in DOMAIN d THEN d[k] ELSE default

Abs(x) == IF x < 0 THEN -x ELSE x

\* round(a / b) for b > 0: the nearest integer, a tie going to the even one.
RoundDiv(a, b) ==
    LET q == a \div b
        r == a % b
    IN  IF 2 * r < b THEN q
        ELSE IF 2 * r > b THEN q + 1
        ELSE IF q % 2 = 0 THEN q ELSE q + 1

\* s[lo] + ... + s[hi], summed by halves.
RECURSIVE SumRange(_, _, _)
SumRange(s, lo, hi) ==
    IF lo > hi THEN 0
    ELSE IF lo = hi THEN s[lo]
    ELSE LET mid == (lo + hi) \div 2
         IN  SumRange(s, lo, mid) + SumRange(s, mid + 1, hi)

SumSeq(s) == SumRange(s, 1, Len(s))

\* s[-k:] of python: the last k elements (all of them when shorter).
LastN(s, k) == IF Len(s) <= k THEN s ELSE SubSeq(s, Len(s) - k + 1, Len(s))

\* np.diff
Diff(s) == [i \in 1..(IF Len(s) = 0 THEN 0 ELSE Len(s) - 1) |-> s[i + 1] - s[i]]

\* The columns of pd.DataFrame(list of dicts).
Columns(data) == UNION {DOMAIN data[i] : i \in 1..Len(data)}

\* df[col] as a list; reading a missing column raises KeyError.
Column(data, col) == [i \in 1..Len(data) |-> data[i][col]]

\* min / max of a non-empty list of integers
RECURSIVE MinSeq(_)
MinSeq(s) == IF Len(s) = 1 THEN s[1]
             ELSE LET m == MinSeq(Tail(s)) IN IF s[1] < m THEN s[1] ELSE m

RECURSIVE MaxSeq(_)
MaxSeq(s) == IF Len(s) = 1 THEN s[1]
             ELSE LET m == MaxSeq(Tail(s)) IN IF s[1] > m THEN s[1] ELSE m

\* Insert dict d into the list s, which is ascending in key k, keeping it so.
RECURSIVE InsertBy(_, _, _)
InsertBy(s, d, k) ==
    IF s = <<>> THEN <<d>>
    ELSE IF d[k] < Head(s)[k] THEN <<d>> \o s
    ELSE <<Head(s)>> \o InsertBy(Tail(s), d, k)

\* df.sort_values(k): the rows in ascending order of column k.
RECURSIVE SortValues(_, _)
SortValues(data, k) ==
    IF data = <<>> THEN <<>>
    ELSE InsertBy(SortValues(Tail(data), k), Head(data), k)

\* Series.pct_change().dropna() in thousandths: (c[i+1] - c[i]) / c[i].
PctChange(c) ==
    [i \in 1..(IF Len(c) = 0 THEN 0 ELSE Len(c) - 1) |->
        ((c[i + 1] - c[i]) * 1000) \div c[i]]

(***************************************************************************)
(* radapt.py: Recognition                                                  *)
(***************************************************************************)

\* np.all(np.diff(x) > 0) and np.all(np.diff(x) < 0)
AllRising(x)  == \A i \in 1..Len(x) - 1 : x[i + 1] - x[i] > 0
AllFalling(x) == \A i \in 1..Len(x) - 1 : x[i + 1] - x[i] < 0

\* VolumeSpike against three times the mean volume.
VolumeSpike_tripleMean(vol) == vol[Len(vol)] * Len(vol) > SumSeq(vol) * 3

\* recent_volume > avg_volume * 2, with avg_volume = sum / len
VolumeSpike(vol) == vol[Len(vol)] * Len(vol) > SumSeq(vol) * 2

\* returns.std() > 0.05, the sample standard deviation (ddof = 1) of the
\* returns r (thousandths): var = (sum r^2 - (sum r)^2 / m) / (m - 1) > 0.0025
HighVolatility(r) ==
    LET m  == Len(r)
        s1 == SumSeq(r)
        s2 == SumSeq([i \in 1..m |-> r[i] * r[i]])
    IN  m >= 2 /\ m * s2 - s1 * s1 > 2500 * m * (m - 1)

\* The statement of the try block that raises, if any: a column the block
\* reads is missing from the frame (KeyError).
RecognitionRaises(data) ==
    LET cols == Columns(data) n == Len(data)
    IN  \/ "date" \notin cols
        \/ n >= 5 /\ "close" \notin cols
        \/ n >= 10 /\ "volume" \notin cols

\* RecognitionSignals reading the rows in input order (the sort left out).
RecognitionSignals_unsorted(data) ==
    LET recent_closes == LastN(Column(data, "close"), 5)
    IN  IF Len(data) >= 5 /\ AllRising(recent_closes) THEN <<"UPTREND_PATTERN">>
        ELSE IF Len(data) >= 5 /\ AllFalling(recent_closes)
             THEN <<"DOWNTREND_PATTERN">>
             ELSE <<>>

RecognitionSignals(data) ==
    LET df     == SortValues(data, "date")
        n      == Len(df)
        trend  == IF n >= 5
                  THEN LET recent_closes == LastN(Column(df, "close"), 5)
                       IN  IF AllRising(recent_closes) THEN <<"UPTREND_PATTERN">>
                           ELSE IF AllFalling(recent_closes)
                                THEN <<"DOWNTREND_PATTERN">>
                                ELSE <<>>
                  ELSE <<>>
        volume == IF n >= 10 /\ VolumeSpike(Column(df, "volume"))
                  THEN <<"VOLUME_SPIKE">> ELSE <<>>
        vola   == IF n >= 20 /\ HighVolatility(PctChange(Column(df, "close")))
                  THEN <<"HIGH_VOLATILITY">> ELSE <<>>
    IN  trend \o volume \o vola

radapt_recognition(data) ==
    IF RecognitionRaises(data)
    THEN [phase |-> "Recognition", error |-> "KeyError", signals |-> <<>>]
    ELSE [phase |-> "Recognition", signals |-> RecognitionSignals(data),
          data_points |-> Len(data)]

(***************************************************************************)
(* radapt.py: Assimilation                                                 *)
(***************************************************************************)

Insight(t, c, conf) == [type |-> t, conclusion |-> c, confidence |-> conf]

InList(x, s) == \E i \in 1..Len(s) : s[i] = x

\* current_price > sma_20, the mean of the last 20 closes in input order
AboveSma20(closes) == closes[Len(closes)] * 20 > SumSeq(LastN(closes, 20))

AssimilationRaises(stock) == Len(stock) >= 20 /\ "close" \notin Columns(stock)

AssimilationInsights(signals, stock) ==
    LET trend  == IF InList("UPTREND_PATTERN", signals)
                  THEN <<Insight("TREND_ANALYSIS", "BULLISH_MOMENTUM", 800)>>
                  ELSE IF InList("DOWNTREND_PATTERN", signals)
                       THEN <<Insight("TREND_ANALYSIS", "BEARISH_MOMENTUM", 800)>>
                       ELSE <<>>
        volume == IF InList("VOLUME_SPIKE", signals)
                  THEN <<Insight("VOLUME_ANALYSIS", "INSTITUTIONAL_INTEREST", 700)>>
                  ELSE <<>>
        tech   == IF Len(stock) >= 20 /\ AboveSma20(Column(stock, "close"))
                  THEN <<Insight("TECHNICAL_ANALYSIS", "ABOVE_SMA20", 600)>>
                  ELSE <<>>
    IN  trend \o volume \o tech

radapt_assimilation(recognition_data, stock) ==
    LET signals == Get(recognition_data, "signals", <<>>)
    IN  IF AssimilationRaises(stock)
        THEN [phase |-> "Assimilation", error |-> "KeyError", insights |-> <<>>]
        ELSE [phase |-> "Assimilation",
              insights |-> AssimilationInsights(signals, stock),
              processed_signals |-> Len(signals)]

(***************************************************************************)
(* radapt.py: Decision                                                     *)
(***************************************************************************)

\* Contribution with INSTITUTIONAL_INTEREST taken off the score.
Contribution_volumeSubtracts(insight) ==
    CASE insight.conclusion = "BULLISH_MOMENTUM"       -> insight.confidence
      [] insight.conclusion = "BEARISH_MOMENTUM"       -> 0 - insight.confidence
      [] insight.conclusion = "INSTITUTIONAL_INTEREST" -> 0 - (insight.confidence * 5) \div 10
      [] insight.conclusion = "ABOVE_SMA20"            -> (insight.confidence * 3) \div 10
      [] OTHER                                         -> 0

\* What one insight adds to decision_score (thousandths).
Contribution(insight) ==
    CASE insight.conclusion = "BULLISH_MOMENTUM"       -> insight.confidence
      [] insight.conclusion = "BEARISH_MOMENTUM"       -> 0 - insight.confidence
      [] insight.conclusion = "INSTITUTIONAL_INTEREST" -> (insight.confidence * 5) \div 10
      [] insight.conclusion = "ABOVE_SMA20"            -> (insight.confidence * 3) \div 10
      [] OTHER                                         -> 0

Factor(insight) ==
    CASE insight.conclusion = "BULLISH_MOMENTUM"       -> <<"POSITIVE_TREND">>
      [] insight.conclusion = "BEARISH_MOMENTUM"       -> <<"NEGATIVE_TREND">>
      [] insight.conclusion = "INSTITUTIONAL_INTEREST" -> <<"VOLUME_SUPPORT">>
      [] insight.conclusion = "ABOVE_SMA20"            -> <<"TECHNICAL_STRENGTH">>
      [] OTHER                                         -> <<>>

RECURSIVE DecisionScore(_)
DecisionScore(insights) ==
    IF insights = <<>> THEN 0
    ELSE Contribution(Head(insights)) + DecisionScore(Tail(insights))

RECURSIVE DecisionFactors(_)
DecisionFactors(insights) ==
    IF insights = <<>> THEN <<>>
    ELSE Factor(Head(insights)) \o DecisionFactors(Tail(insights))

\* insight['conclusion'] and insight['confidence'] raise KeyError on an
\* insight without that key.
DecisionRaises(insights) ==
    \E i \in 1..Len(insights) :
        \/ "conclusion" \notin DOMAIN insights[i]
        \/ /\ insights[i].conclusion \in {"BULLISH_MOMENTUM", "BEARISH_MOMENTUM",
                                          "INSTITUTIONAL_INTEREST", "ABOVE_SMA20"}
           /\ "confidence" \notin DOMAIN insights[i]

\* Decide with inclusive cutoffs (>= where the code has >).
Decide_inclusive(decision_score) ==
    IF decision_score >= 800 THEN "STRONG_BUY"
    ELSE IF decision_score >= 400 THEN "BUY"
    ELSE IF decision_score >= -400 THEN "HOLD"
    ELSE IF decision_score >= -800 THEN "SELL"
    ELSE "STRONG_SELL"

\* The cutoffs 0.8, 0.4, -0.4, -0.8 on the score in thousandths.
Decide(decision_score) ==
    IF decision_score > 800 THEN "STRONG_BUY"
    ELSE IF decision_score > 400 THEN "BUY"
    ELSE IF decision_score > -400 THEN "HOLD"
    ELSE IF decision_score > -800 THEN "SELL"
    ELSE "STRONG_SELL"

radapt_decision(assimilation_data) ==
    LET insights == Get(assimilation_data, "insights", <<>>)
    IN  IF DecisionRaises(insights)
        THEN [phase |-> "Decision", error |-> "KeyError", decision |-> "HOLD"]
        ELSE LET decision_score == DecisionScore(insights)
             IN  [phase |-> "Decision",
                  decision |-> Decide(decision_score),
                  confidence_score |-> Abs(decision_score),
                  decision_factors |-> DecisionFactors(insights)]

(***************************************************************************)
(* radapt.py: Action                                                       *)
(***************************************************************************)

\* Nothing in the try block of radapt_action can raise on a dict argument.
ActionRaises(decision_data) == FALSE

\* RecommendedAction with position_size FULL from a confidence of 0.8 on.
RecommendedAction_fullAtThreshold(dec, confidence) ==
    IF dec \in {"STRONG_BUY", "BUY"}
    THEN [action_type |-> "ENTRY", direction |-> "LONG",
          urgency |-> IF dec = "STRONG_BUY" THEN "HIGH" ELSE "MEDIUM",
          position_size |-> IF confidence >= 800 THEN "FULL" ELSE "PARTIAL"]
    ELSE IF dec \in {"STRONG_SELL", "SELL"}
    THEN [action_type |-> "EXIT", direction |-> "SHORT",
          urgency |-> IF dec = "STRONG_SELL" THEN "HIGH" ELSE "MEDIUM",
          position_size |-> IF confidence >= 800 THEN "FULL" ELSE "PARTIAL"]
    ELSE [action_type |-> "MONITOR", direction |-> "NEUTRAL",
          urgency |-> "LOW", position_size |-> "HOLD"]

RecommendedAction(dec, confidence) ==
    IF dec \in {"STRONG_BUY", "BUY"}
    THEN [action_type |-> "ENTRY", direction |-> "LONG",
          urgency |-> IF dec = "STRONG_BUY" THEN "HIGH" ELSE "MEDIUM",
          position_size |-> IF confidence > 800 THEN "FULL" ELSE "PARTIAL"]
    ELSE IF dec \in {"STRONG_SELL", "SELL"}
    THEN [action_type |-> "EXIT", direction |-> "SHORT",
          urgency |-> IF dec = "STRONG_SELL" THEN "HIGH" ELSE "MEDIUM",
          position_size |-> IF confidence > 800 THEN "FULL" ELSE "PARTIAL"]
    ELSE [action_type |-> "MONITOR", direction |-> "NEUTRAL",
          urgency |-> "LOW", position_size |-> "HOLD"]

radapt_action(decision_data, symbol) ==
    LET dec        == Get(decision_data, "decision", "HOLD")
        confidence == Get(decision_data, "confidence_score", 0)
    IN  IF ActionRaises(decision_data)
        THEN [phase |-> "Action", error |-> "Exception",
              recommended_actions |-> <<>>]
        ELSE [phase |-> "Action", symbol |-> symbol,
              recommended_actions |-> <<RecommendedAction(dec, confidence)>>,
              execution_priority |-> IF confidence > 700 THEN "HIGH" ELSE "MEDIUM"]

(***************************************************************************)
(* radapt.py: PAST                                                         *)
(***************************************************************************)

RECURSIVE InsertInt(_, _)
InsertInt(s, x) ==
    IF s = <<>> THEN <<x>>
    ELSE IF x < Head(s) THEN <<x>> \o s
    ELSE <<Head(s)>> \o InsertInt(Tail(s), x)

RECURSIVE SortInts(_)
SortInts(s) == IF s = <<>> THEN <<>> ELSE InsertInt(SortInts(Tail(s)), Head(s))

\* np.percentile(a, 95), linear interpolation, of a non-empty list a, times
\* 100 (so in units of 0.00001 for a in thousandths): the rank is
\* 0.95 * (len - 1), kept exact in hundredths.
Percentile95x100(a) ==
    LET srt  == SortInts(a)
        rank == 95 * (Len(a) - 1)
        lo   == (rank \div 100) + 1
        hi   == IF lo < Len(a) THEN lo + 1 ELSE lo
    IN  100 * srt[lo] + (rank % 100) * (srt[hi] - srt[lo])

\* The month of a date. Dates are day numbers of a calendar of 30-day months.
Month(date) == (((date - 1) \div 30) % 12) + 1

\* df.groupby('month')['close'].pct_change(): the change from the previous
\* row of the same month (no value for the first row of a month).
GroupedPctChange(data) ==
    LET prev(i) == {j \in 1..(i - 1) : Month(data[j].date) = Month(data[i].date)}
        rows    == {i \in 1..Len(data) : prev(i) # {}}
        last(i) == CHOOSE j \in prev(i) : \A k \in prev(i) : k <= j
    IN  [i \in rows |->
            ((data[i].close - data[last(i)].close) * 1000) \div data[last(i)].close]

RECURSIVE SumOver(_, _)
SumOver(f, S) ==
    IF S = {} THEN 0
    ELSE LET x == CHOOSE x \in S : TRUE IN f[x] + SumOver(f, S \ {x})

\* monthly_returns = that Series' .mean(): ONE number, a numpy float (nan when
\* the Series has no value), tagged here with its python type.
MonthlyReturns(data) ==
    LET g == GroupedPctChange(data)
    IN  IF DOMAIN g = {} THEN [type |-> "float", nan |-> TRUE]
        ELSE [type |-> "float", nan |-> FALSE,
              value |-> SumOver(g, DOMAIN g) \div Cardinality(DOMAIN g)]

\* len(x) is defined on sequences and raises TypeError on a float.
LenRaises(x) == x.type = "float"

\* The statement of the try block that raises past the length test, if any:
\* a missing column (KeyError), or len(monthly_returns) (TypeError).
PastRaises(data) ==
    IF {"close", "high", "low", "date"} \ Columns(data) # {} THEN "KeyError"
    ELSE IF LenRaises(MonthlyReturns(data)) THEN "TypeError"
    ELSE "no"

\* historical_patterns as it stands when the seasonal block is reached
HistoricalPatterns(data) ==
    LET returns       == PctChange(Column(data, "close"))
        p95           == Percentile95x100([i \in 1..Len(returns) |-> Abs(returns[i])])
        current_price == data[Len(data)].close
        recent_high   == MaxSeq(LastN(Column(data, "high"), 20))
        recent_low    == MinSeq(LastN(Column(data, "low"), 20))
    IN  (IF p95 > 5000 THEN <<"HIGH_HISTORICAL_VOLATILITY">> ELSE <<>>)
        \o (IF current_price * 100 > recent_high * 95 THEN <<"NEAR_RESISTANCE">>
            ELSE IF current_price * 100 < recent_low * 105 THEN <<"NEAR_SUPPORT">>
            ELSE <<>>)

radapt_past_analysis(data, symbol) ==
    IF Len(data) < 30
    THEN [phase |-> "PAST", error |-> "Insufficient historical data",
          patterns |-> <<>>]
    ELSE IF PastRaises(data) # "no"
    THEN [phase |-> "PAST", error |-> PastRaises(data),
          historical_patterns |-> <<>>]
    ELSE LET returns == PctChange(Column(data, "close"))
         IN  [phase |-> "PAST", symbol |-> symbol,
              historical_patterns |->
                  HistoricalPatterns(data) \o <<"SEASONAL_STRENGTH_MONTH">>,
              analysis_period |-> Len(data),
              volatility_score |->
                  RoundDiv(Percentile95x100([i \in 1..Len(returns) |->
                                                Abs(returns[i])]), 10)]

(***************************************************************************)
(* radapt.py: Transfer and process_radapt                                  *)
(***************************************************************************)

\* Nothing in the try block of radapt_transfer can raise on a dict of dicts.
TransferRaises(all_phases_data) == FALSE

\* RiskLevel with the comparisons of lines 313 and 315 reading >=.
RiskLevel_inclusive(volatility) ==
    IF volatility >= 500 THEN "HIGH"
    ELSE IF volatility >= 300 THEN "MEDIUM"
    ELSE "LOW"

\* volatility is in the unit of volatility_score, 0.0001 (four decimals).
RiskLevel(volatility) ==
    IF volatility > 500 THEN "HIGH"
    ELSE IF volatility > 300 THEN "MEDIUM"
    ELSE "LOW"

radapt_transfer(all_phases_data, symbol) ==
    LET decision_phase == Get(all_phases_data, "decision", [x \in {} |-> 0])
        action_phase   == Get(all_phases_data, "action", [x \in {} |-> 0])
        past_phase     == Get(all_phases_data, "past", [x \in {} |-> 0])
        volatility     == Get(past_phase, "volatility_score", 0)
    IN  IF TransferRaises(all_phases_data)
        THEN [symbol |-> symbol, error |-> "Transfer phase failed"]
        ELSE [symbol |-> symbol,
              radapt_analysis |->
                  [recognition  |-> Get(all_phases_data, "recognition", [x \in {} |-> 0]),
                   assimilation |-> Get(all_phases_data, "assimilation", [x \in {} |-> 0]),
                   decision     |-> decision_phase,
                   action       |-> action_phase,
                   past         |-> past_phase],
              consolidated_recommendation |->
                  [primary_decision   |-> Get(decision_phase, "decision", "HOLD"),
                   confidence_level   |-> Get(decision_phase, "confidence_score", 0),
                   recommended_actions |->
                       Get(action_phase, "recommended_actions", <<>>),
                   execution_timeline |->
                       IF Get(decision_phase, "confidence_score", 0) > 800
                       THEN "IMMEDIATE" ELSE "MONITOR"],
              risk_assessment |->
                  [risk_level |-> RiskLevel(volatility),
                   volatility_score |-> volatility,
                   historical_patterns |->
                       Get(past_phase, "historical_patterns", <<>>)]]

\* process_radapt_result reporting failure when a phase result has an error.
process_radapt_result_strict(symbol, data, transfer) ==
    IF \E ph \in DOMAIN transfer.radapt_analysis :
           "error" \in DOMAIN transfer.radapt_analysis[ph]
    THEN [success |-> FALSE, symbol |-> symbol, error |-> "phase failed"]
    ELSE [success |-> TRUE, symbol |-> symbol, radapt_complete |-> transfer,
          processing_summary |-> [phases_completed |-> 5,
                                  total_data_points |-> Len(data)]]

process_radapt_result(symbol, data, transfer) ==
    [success |-> TRUE, symbol |-> symbol, radapt_complete |-> transfer,
     processing_summary |-> [phases_completed |-> 5,
                             total_data_points |-> Len(data)]]

(***************************************************************************)
(* Input series of the RADAPT pipeline                                     *)
(***************************************************************************)

MaxExtra  == 1    \* series lengths go up to 30 + MaxExtra
BaseClose == 8    \* the close of the flat part of a series
MaxSpike  == 3    \* the last bar's volume is 1..MaxSpike times the others'

AllColumns == {"date", "open", "high", "low", "close", "volume"}

\* The series lengths tried: each side of every length the code tests.
Lengths == {0, 1, 4, 5, 9, 10, 19, 20, 29, 30} \cup (31..(30 + MaxExtra))

Bar(date, close, volume) ==
    [date |-> date, open |-> close, high |-> close + 1, low |-> close - 1,
     close |-> close, volume |-> volume]

\* n bars: flat at BaseClose, then moving by the last min(n - 1, 4) steps of
\* d; the last bar has volume spike, the others 1; dates 1..n ascending, or
\* descending when asc is FALSE; each dict holds the keys cols only.
Series(n, d, spike, asc, cols) ==
    LET k        == IF n - 1 < 4 THEN (IF n = 0 THEN 0 ELSE n - 1) ELSE 4
        steps    == LastN(d, k)
        close(i) == BaseClose + SumSeq([j \in 1..(IF i > n - k THEN i - (n - k) ELSE 0)
                                           |-> steps[j]])
        bar(i)   == Bar(IF asc THEN i ELSE n + 1 - i, close(i),
                        IF i = n THEN spike ELSE 1)
    IN  [i \in 1..n |-> [c \in cols |-> bar(i)[c]]]

ColumnChoices ==
    {AllColumns} \cup {AllColumns \ {c} : c \in {"date", "close", "volume", "high"}}

SeriesInputs ==
    {Series(n, d, spike, asc, cols) :
        n \in Lengths, d \in [1..4 -> {-1, 0, 1}], spike \in {1, MaxSpike},
        asc \in BOOLEAN, cols \in ColumnChoices}

(***************************************************************************)
(* process_radapt, one step per phase                                      *)
(***************************************************************************)

InitRadapt ==
    /\ pc = "recognition"
    /\ stock_data \in SeriesInputs
    /\ recognition = None /\ assimilation = None /\ decision = None
    /\ action = None /\ past = None /\ radapt_out = None
    /\ phases_run = <<>>
    /\ ForecastIdle /\ BatchIdle /\ AnalysisIdle /\ HealthIdle

Recognition ==
    /\ pc = "recognition"
    /\ recognition' = radapt_recognition(stock_data)
    /\ phases_run' = Append(phases_run, "Recognition")
    /\ pc' = "assimilation"
    /\ UNCHANGED <<stock_data, assimilation, decision, action, past, radapt_out,
                   forecast_vars, batch_vars, analysis_vars, health_vars>>

Assimilation ==
    /\ pc = "assimilation"
    /\ assimilation' = radapt_assimilation(recognition, stock_data)
    /\ phases_run' = Append(phases_run, "Assimilation")
    /\ pc' = "decision"
    /\ UNCHANGED <<stock_data, recognition, decision, action, past, radapt_out,
                   forecast_vars, batch_vars, analysis_vars, health_vars>>

Decision ==
    /\ pc = "decision"
    /\ decision' = radapt_decision(assimilation)
    /\ phases_run' = Append(phases_run, "Decision")
    /\ pc' = "action"
    /\ UNCHANGED <<stock_data, recognition, assimilation, action, past, radapt_out,
                   forecast_vars, batch_vars, analysis_vars, health_vars>>

Action ==
    /\ pc = "action"
    /\ action' = radapt_action(decision, Symbol)
    /\ phases_run' = Append(phases_run, "Action")
    /\ pc' = "past"
    /\ UNCHANGED <<stock_data, recognition, assimilation, decision, past, radapt_out,
                   forecast_vars, batch_vars, analysis_vars, health_vars>>

Past ==
    /\ pc = "past"
    /\ past' = radapt_past_analysis(stock_data, Symbol)
    /\ phases_run' = Append(phases_run, "PAST")
    /\ pc' = "transfer"
    /\ UNCHANGED <<stock_data, recognition, assimilation, decision, action, radapt_out,
                   forecast_vars, batch_vars, analysis_vars, health_vars>>

\* The Transfer phase and the return of process_radapt.
Transfer ==
    /\ pc = "transfer"
    /\ LET all_phases == [recognition |-> recognition,
                          assimilation |-> assimilation,
                          decision |-> decision, action |-> action,
                          past |-> past]
       IN  radapt_out' = process_radapt_result(Symbol, stock_data,
                                               radapt_transfer(all_phases, Symbol))
    /\ phases_run' = Append(phases_run, "Transfer")
    /\ pc' = "done"
    /\ UNCHANGED <<stock_data, recognition, assimilation, decision, action, past,
                   forecast_vars, batch_vars, analysis_vars, health_vars>>

NextRadapt ==
    \/ Recognition \/ Assimilation \/ Decision \/ Action \/ Past \/ Transfer

SpecRadapt == InitRadapt /\ [][NextRadapt]_vars

(***************************************************************************)
(* radapt_decision on its own, over arbitrary insight lists                *)
(***************************************************************************)

MaxInsights == 3

InsightInputs ==
    {Insight("X", c, conf) :
        c \in {"BULLISH_MOMENTUM", "BEARISH_MOMENTUM", "INSTITUTIONAL_INTEREST",
               "ABOVE_SMA20"},
        conf \in {400, 800}}
    \cup {[type |-> "X", confidence |-> 800]}

InitDecision ==
    /\ pc = "decision"
    /\ \E n \in 0..MaxInsights :
          assimilation \in {[phase |-> "Assimilation", insights |-> l,
                             processed_signals |-> 0] : l \in [1..n -> InsightInputs]}
    /\ stock_data = <<>> /\ recognition = None /\ decision = None
    /\ action = None /\ past = None /\ radapt_out = None
    /\ phases_run = <<>>
    /\ ForecastIdle /\ BatchIdle /\ AnalysisIdle /\ HealthIdle

SpecDecision == InitDecision /\ [][Decision]_vars

(***************************************************************************)
(* Claims on the RADAPT pipeline                                           *)
(***************************************************************************)

\* C1: radapt_decision maps the score s by strict '>' cutoffs: s > 0.8 is
\* STRONG_BUY, 0.4 < s <= 0.8 BUY, -0.4 < s <= 0.4 HOLD, -0.8 < s <= -0.4
\* SELL, s <= -0.8 STRONG_SELL; exactly 0.8 is BUY, exactly 0.4 HOLD, exactly
\* -0.4 SELL and exactly -0.8 STRONG_SELL.
C1_DecisionCutoffs ==
    (pc = "action" /\ "error" \notin DOMAIN decision) =>
        LET s == DecisionScore(assimilation.insights)
            d == decision.decision
        IN  /\ (d = "STRONG_BUY")  <=> (s > 800)
            /\ (d = "BUY")         <=> (400 < s /\ s <= 800)
            /\ (d = "HOLD")        <=> (-400 < s /\ s <= 400)
            /\ (d = "SELL")        <=> (-800 < s /\ s <= -400)
            /\ (d = "STRONG_SELL") <=> (s <= -800)
            /\ (s = 800 => d = "BUY") /\ (s = 400 => d = "HOLD")
            /\ (s = -400 => d = "SELL") /\ (s = -800 => d = "STRONG_SELL")

\* A decision was taken on a score of exactly 0.8.
C1_Witness ==
    /\ pc = "action" /\ "error" \notin DOMAIN decision
    /\ DecisionScore(assimilation.insights) = 800
    /\ decision.decision = "BUY"

\* The series has exactly 5 bars and its closes rise strictly with the date.
FiveRisingBars ==
    /\ Len(stock_data) = 5
    /\ {"date", "close"} \subseteq Columns(stock_data)
    /\ \A i, j \in 1..5 : stock_data[i].date < stock_data[j].date
                            => stock_data[i].close < stock_data[j].close

\* C2: for every series of exactly 5 bars with strictly increasing closes,
\* Recognition emits UPTREND_PATTERN, Assimilation gives the single insight
\* BULLISH_MOMENTUM with confidence 0.8, and Decision gives score 0.8
\* (confidence_score 0.8) and decision BUY, not STRONG_BUY.
C2_FiveRisingBarsBuy ==
    FiveRisingBars =>
        /\ pc \notin {"recognition"} =>
              /\ "error" \notin DOMAIN recognition
              /\ InList("UPTREND_PATTERN", recognition.signals)
        /\ pc \notin {"recognition", "assimilation"} =>
              assimilation.insights =
                  <<[type |-> "TREND_ANALYSIS", conclusion |-> "BULLISH_MOMENTUM",
                     confidence |-> 800]>>
        /\ pc \notin {"recognition", "assimilation", "decision"} =>
              /\ decision.confidence_score = 800
              /\ decision.decision = "BUY"
              /\ decision.decision # "STRONG_BUY"

\* The pipeline ran to its end on five rising bars given out of date order.
C2_Witness ==
    /\ FiveRisingBars /\ pc = "done"
    /\ stock_data[1].date > stock_data[5].date
    /\ decision.decision = "BUY"

\* The series is a list of complete bars.
WellFormedSeries ==
    \A i \in 1..Len(stock_data) : DOMAIN stock_data[i] = AllColumns

\* C3: the PAST phase returns the insufficient-data marker with an empty
\* pattern list for every series of fewer than 30 points, and for every
\* series of 30 or more points a result without an error marker whose pattern
\* list is non-empty and holds the seasonal-strength marker, together with a
\* volatility_score.
C3_PastThreshold ==
    (WellFormedSeries /\ pc \in {"transfer", "done"}) =>
        /\ Len(stock_data) < 30 =>
              /\ Get(past, "error", "") = "Insufficient historical data"
              /\ Get(past, "patterns", <<"?">>) = <<>>
        /\ Len(stock_data) >= 30 =>
              /\ "error" \notin DOMAIN past
              /\ InList("SEASONAL_STRENGTH_MONTH",
                        Get(past, "historical_patterns", <<>>))
              /\ "volatility_score" \in DOMAIN past

PhaseOrder ==
    <<"Recognition", "Assimilation", "Decision", "Action", "PAST", "Transfer">>

\* The phase raised inside its try block (PAST's insufficient-data marker is
\* an ordinary return, not a failure).
Failed(result) ==
    /\ "error" \in DOMAIN result
    /\ result.error # "Insufficient historical data"

\* C4: whatever phase fails, process_radapt runs all six phases in the order
\* Recognition, Assimilation, Decision, Action, PAST, Transfer and returns
\* success = true with a consolidated recommendation; the failed phase's
\* result inside radapt_analysis carries an error marker and the empty or
\* default payload (signals [], insights [], decision HOLD,
\* recommended_actions [], an empty pattern list).
C4_PhaseFailureIsLocal ==
    /\ \E k \in 0..6 : phases_run = SubSeq(PhaseOrder, 1, k)
    /\ pc = "done" =>
          /\ phases_run = PhaseOrder
          /\ radapt_out.success = TRUE
          /\ "consolidated_recommendation" \in DOMAIN radapt_out.radapt_complete
          /\ LET ra == radapt_out.radapt_complete.radapt_analysis
             IN  /\ ra = [recognition |-> recognition, assimilation |-> assimilation,
                          decision |-> decision, action |-> action, past |-> past]
                 /\ Failed(ra.recognition) => ra.recognition.signals = <<>>
                 /\ Failed(ra.assimilation) => ra.assimilation.insights = <<>>
                 /\ Failed(ra.decision) => ra.decision.decision = "HOLD"
                 /\ Failed(ra.action) => ra.action.recommended_actions = <<>>
                 /\ Failed(ra.past) => ra.past.historical_patterns = <<>>

\* The pipeline ended after Recognition and PAST both failed.
C4_Witness ==
    /\ pc = "done"
    /\ Failed(recognition) /\ Failed(past)
    /\ radapt_out.success = TRUE
    /\ radapt_out.radapt_complete.consolidated_recommendation.primary_decision = "HOLD"

(***************************************************************************)
(* prediction_service.py: predict_with_arima                               *)
(*                                                                         *)
(* Prices are integers. Forecast values are exact multiples of 1/Den of a  *)
(* price unit and carried as that multiple: the fallback divides by 9 (the *)
(* mean of the 9 differences of 10 prices) and by 20 (0.15 = 3/20).        *)
(***************************************************************************)

Den == 9 * 20

\* What the statsmodels fit and forecast of lines 73-78 do is outside this
\* repository: either a statement raises, or the forecast comes back, here a
\* level with a confidence band of +/- half. No model fits an empty series.
FitOutcomes(p) ==
    {[ok |-> FALSE]}
    \cup (IF Len(p) = 0 THEN {}
          ELSE {[ok |-> TRUE, level |-> p[Len(p)] + 3, half |-> 2]})

Steps(h) == 1..(IF h > 0 THEN h ELSE 0)

\* growth_rate of line 89 times 9, with the 11 last prices in place of 10.
GrowthRate9_window11(p) ==
    IF Len(p) >= 10 THEN SumSeq(Diff(LastN(p, 11))) ELSE 0

\* growth_rate of line 89, times 9: np.mean(np.diff(prices[-10:])) is the sum
\* of the 9 differences of the last 10 prices, over 9.
GrowthRate9(p) ==
    IF Len(p) > 10 THEN SumSeq(Diff(LastN(p, 10))) ELSE 0

\* The except branch, lines 88-99. prices[-1] raises IndexError on [].
Fallback(p, h) ==
    IF Len(p) = 0 THEN [raised |-> "IndexError"]
    ELSE LET last_price == p[Len(p)]
             forecast   == [i \in Steps(h) |->
                               Den * last_price + (Den \div 9) * GrowthRate9(p) * i]
             margin     == (Den * last_price * 15) \div 100
         IN  [forecast |-> forecast,
              upper_ci |-> [i \in Steps(h) |-> forecast[i] + margin],
              lower_ci |-> [i \in Steps(h) |-> forecast[i] - margin],
              params   |-> <<1, 1, 1>>]

predict_with_arima(p, h, f) ==
    IF f.ok
    THEN [forecast |-> [i \in Steps(h) |-> Den * f.level],
          upper_ci |-> [i \in Steps(h) |-> Den * (f.level + f.half)],
          lower_ci |-> [i \in Steps(h) |-> Den * (f.level - f.half)],
          params   |-> <<1, 1, 1>>]
    ELSE Fallback(p, h)

(***************************************************************************)
(* predict_with_arima on its own, over arbitrary price lists and horizons  *)
(***************************************************************************)

MaxHorizon == 3    \* horizons go from -1 to MaxHorizon
BasePrice  == 20   \* the first price of a list
MaxJump    == 2    \* the last price is moved by up to MaxJump

\* n prices on a line of the given slope from BasePrice; the last price is
\* moved by jump, and the prices before the last 10 by early.
PriceList(n, slope, jump, early) ==
    [i \in 1..n |-> BasePrice + slope * i
                    + (IF i = n THEN jump ELSE 0)
                    + (IF i <= n - 10 THEN early ELSE 0)]

PriceInputs ==
    {PriceList(n, slope, jump, early) :
        n \in {0, 1, 2, 9, 10, 11, 12}, slope \in {-1, 0, 1},
        jump \in {-MaxJump, 0, 1}, early \in {0, 5}}

InitForecast ==
    /\ pc = "predict"
    /\ prices \in PriceInputs
    /\ days_ahead \in -1..MaxHorizon
    /\ fit \in FitOutcomes(prices)
    /\ forecast_out = None
    /\ RadaptIdle /\ BatchIdle /\ AnalysisIdle /\ HealthIdle

Predict ==
    /\ pc = "predict"
    /\ forecast_out' = predict_with_arima(prices, days_ahead, fit)
    /\ pc' = IF "raised" \in DOMAIN forecast_out' THEN "raised" ELSE "returned"
    /\ UNCHANGED <<prices, days_ahead, fit, radapt_vars, batch_vars, analysis_vars,
                   health_vars>>

SpecForecast == InitForecast /\ [][Predict]_vars

\* C9: when the fit fails, for every non-empty price list and horizon h > 0
\* predict_with_arima returns h forecast values, forecast[i] = last + delta*i
\* with delta the mean of the differences over the last 10 prices (0 with
\* fewer than 11 prices), upper_ci[i] = forecast[i] + 0.15*last and
\* lower_ci[i] = forecast[i] - 0.15*last: three lists of length h and a band
\* of width 0.30*last at every step.
C9_FallbackForecast ==
    (pc # "predict" /\ ~fit.ok /\ Len(prices) >= 1 /\ days_ahead > 0) =>
        LET n      == Len(prices)
            last   == prices[n]
            delta9 == IF n >= 11 THEN prices[n] - prices[n - 9] ELSE 0
        IN  /\ pc = "returned"
            /\ Len(forecast_out.forecast) = days_ahead
            /\ Len(forecast_out.upper_ci) = days_ahead
            /\ Len(forecast_out.lower_ci) = days_ahead
            /\ \A i \in 1..days_ahead :
                  /\ 9 * forecast_out.forecast[i] = Den * (9 * last + delta9 * i)
                  /\ 100 * (forecast_out.upper_ci[i] - forecast_out.forecast[i])
                         = Den * 15 * last
                  /\ 100 * (forecast_out.forecast[i] - forecast_out.lower_ci[i])
                         = Den * 15 * last
                  /\ 100 * (forecast_out.upper_ci[i] - forecast_out.lower_ci[i])
                         = Den * 30 * last

\* The fallback forecast three steps ahead of 11 prices that end in a jump.
C9_Witness ==
    /\ pc = "returned" /\ ~fit.ok /\ Len(prices) = 11 /\ days_ahead = 3
    /\ prices[11] - prices[2] \notin {0, 9, -9}
    /\ forecast_out.forecast[3] # forecast_out.forecast[1]

\* C10: predict_with_arima never raises: for every input series, also a too
\* short or empty one, a failure of the fit or the forecast ends in the
\* fallback forecast being returned.
C10_NeverRaises ==
    pc # "predict" =>
        /\ pc = "returned"
        /\ "raised" \notin DOMAIN forecast_out
        /\ "forecast" \in DOMAIN forecast_out

(***************************************************************************)
(* prediction_service.py: analyze_company                                  *)
(*                                                                         *)
(* Rounded outputs are integers in the unit of the rounding: prices and    *)
(* percentages in hundredths (round(x, 2)), the confidence in tenths.      *)
(* Daily returns are carried in units of 0.0001. The charting fields       *)
(* (recent_historical, the forecast dates) are left out of an entry.       *)
(***************************************************************************)

\* Two of the thirty rows of COMPANY_SYMBOLS.
COMPANY_SYMBOLS == [c \in {"Apple Inc", "IBM"} |->
                       IF c = "Apple Inc" THEN "AAPL" ELSE "IBM"]

MockDays == 100

\* generate_mock_historical_data draws its prices at random: the draw g is
\* one of a few price paths, flat at BasePrice and ending in a jump.
MockDraws == {[jump |-> j] : j \in {1, 4, -6}}

generate_mock_historical_data(days, g) == PriceList(days, 0, g.jump, 0)

\* The largest r in lo..hi with r * r <= x (lo * lo <= x).
RECURSIVE SqrtIn(_, _, _)
SqrtIn(x, lo, hi) ==
    IF lo >= hi THEN lo
    ELSE LET mid == (lo + hi + 1) \div 2
         IN  IF mid * mid <= x THEN SqrtIn(x, mid, hi) ELSE SqrtIn(x, lo, mid - 1)

Sqrt(x) == SqrtIn(x, 0, 46340)

\* np.diff(prices) / prices[:-1], in units of 0.0001
Returns(p) ==
    [i \in 1..(IF Len(p) = 0 THEN 0 ELSE Len(p) - 1) |->
        ((p[i + 1] - p[i]) * 10000) \div p[i]]

\* np.std(returns) * np.sqrt(252) * 100 in hundredths of a percent: the
\* population variance (ddof = 0) of the returns, times 252, square root.
Volatility(p) ==
    LET r  == Returns(p)
        m  == Len(r)
        s1 == SumSeq(r)
        s2 == SumSeq([i \in 1..m |-> r[i] * r[i]])
    IN  Sqrt(((m * s2 - s1 * s1) \div (m * m)) * 252)

\* The risk buckets with the comparisons of lines 134 and 136 reading <=.
RiskBucket_inclusive(volatility) ==
    IF volatility <= 2000 THEN "Low"
    ELSE IF volatility <= 3500 THEN "Medium"
    ELSE "High"

\* The confidence without the max(60, ...) of line 142.
Confidence_noFloor(volatility) ==
    LET raw == 100000 - volatility * 15
    IN  RoundDiv(IF raw < 95000 THEN raw ELSE 95000, 100)

\* The risk buckets of lines 134-139 (volatility in hundredths).
RiskBucket(volatility) ==
    IF volatility < 2000 THEN "Low"
    ELSE IF volatility < 3500 THEN "Medium"
    ELSE "High"

\* max(60, min(95, 100 - volatility * 1.5)), rounded to one decimal (tenths).
Confidence(volatility) ==
    LET raw == 100000 - volatility * 15
        low == IF raw < 95000 THEN raw ELSE 95000
    IN  RoundDiv(IF low > 60000 THEN low ELSE 60000, 100)

\* The RSI with the averages of lines 53-54 taken over all the deltas.
Rsi_allDeltas(p) ==
    LET delta == Diff(p)
        gain  == SumSeq([i \in 1..Len(delta) |-> IF delta[i] > 0 THEN delta[i] ELSE 0])
        loss  == SumSeq([i \in 1..Len(delta) |-> IF delta[i] < 0 THEN -delta[i] ELSE 0])
    IN  IF Len(delta) = 0 THEN 10000
        ELSE IF gain = 0 THEN 0
        ELSE IF loss = 0 THEN 10000
        ELSE RoundDiv(10000 * gain, gain + loss)

\* calculate_technical_indicators: the RSI in hundredths. With avg_gain G/k
\* and avg_loss L/k over the k last deltas (14, or all when fewer), rsi is
\* 100 - 100 / (1 + rs), rs = avg_gain / (avg_loss + 1e-10): 0 when G = 0,
\* 100 to two decimals when L = 0 < G, else 100 * G / (G + L). With no delta
\* at all the means are nan and max(0, min(100, nan)) is 100.
Rsi(p) ==
    LET delta == LastN(Diff(p), 14)
        gain  == SumSeq([i \in 1..Len(delta) |-> IF delta[i] > 0 THEN delta[i] ELSE 0])
        loss  == SumSeq([i \in 1..Len(delta) |-> IF delta[i] < 0 THEN -delta[i] ELSE 0])
    IN  IF Len(delta) = 0 THEN 10000
        ELSE IF gain = 0 THEN 0
        ELSE IF loss = 0 THEN 10000
        ELSE RoundDiv(10000 * gain, gain + loss)

\* np.mean of the last k prices (all when fewer), in hundredths
MovingAverage(p, k) == RoundDiv(100 * SumSeq(LastN(p, k)), Len(LastN(p, k)))

calculate_technical_indicators(p) ==
    [rsi |-> Rsi(p), ma_20 |-> MovingAverage(p, 20), ma_50 |-> MovingAverage(p, 50)]

\* DateError that also rejects a company missing from COMPANY_SYMBOLS.
DateError_unknownCompany(company_name, target_date, now) ==
    IF company_name \notin DOMAIN COMPANY_SYMBOLS THEN "Unknown company"
    ELSE IF "day" \notin DOMAIN target_date
    THEN "time data does not match format '%Y-%m-%d'"
    ELSE IF target_date.day - now <= 0 THEN "Target date must be in the future"
    ELSE "none"

\* DateError with the horizon test of line 115 reading days_ahead < 0.
DateError_allowsToday(company_name, target_date, now) ==
    IF "day" \notin DOMAIN target_date
    THEN "time data does not match format '%Y-%m-%d'"
    ELSE IF target_date.day - now < 0 THEN "Target date must be in the future"
    ELSE "none"

\* The ValueError lines 104-116 raise, if any: strptime on a target date not
\* in the '%Y-%m-%d' format (a target date is [day |-> n] or, malformed,
\* [text |-> ...]), or the explicit raise on days_ahead <= 0. The symbol
\* lookup of line 104 has a default and raises nothing.
DateError(company_name, target_date, now) ==
    IF "day" \notin DOMAIN target_date
    THEN "time data does not match format '%Y-%m-%d'"
    ELSE IF target_date.day - now <= 0 THEN "Target date must be in the future"
    ELSE "none"

\* analyze_company with the clock reading `now`, the mock data draw g and the
\* fit outcome f.
analyze_company(company_name, target_date, now, g, f) ==
    LET symbol == IF company_name \in DOMAIN COMPANY_SYMBOLS
                  THEN COMPANY_SYMBOLS[company_name] ELSE "UNKNOWN"
        p             == generate_mock_historical_data(MockDays, g)
        current_price == p[Len(p)]
    IN  IF DateError(company_name, target_date, now) # "none"
        THEN [error |-> DateError(company_name, target_date, now)]
        ELSE
        LET horizon         == target_date.day - now
            technical       == calculate_technical_indicators(p)
            prediction_data == predict_with_arima(p, horizon, f)
        IN  IF "raised" \in DOMAIN prediction_data
            THEN [error |-> prediction_data.raised]
            ELSE IF Len(prediction_data.forecast) = 0
            THEN [error |-> "list index out of range"]   \* forecast[-1], line 123
            ELSE
            LET predicted_price == prediction_data.forecast[horizon]
                price_change    == predicted_price - Den * current_price
                volatility      == Volatility(p)
            IN  [symbol |-> symbol,
                 current_price |-> 100 * current_price,
                 predicted_price |-> RoundDiv(100 * predicted_price, Den),
                 price_change |-> RoundDiv(100 * price_change, Den),
                 price_change_percent |->
                     RoundDiv(10000 * price_change, Den * current_price),
                 volatility |-> volatility,
                 risk_level |-> RiskBucket(volatility),
                 prediction_confidence |-> Confidence(volatility),
                 trend_direction |-> IF price_change > 0 THEN "Upward" ELSE "Downward",
                 market_sentiment |-> IF price_change > 0 THEN "Bullish" ELSE "Bearish",
                 arima_params |-> prediction_data.params,
                 technical_analysis |-> technical,
                 forecast_data |->
                     [values   |-> [i \in 1..horizon |->
                                      RoundDiv(100 * prediction_data.forecast[i], Den)],
                      upper_ci |-> [i \in 1..horizon |->
                                      RoundDiv(100 * prediction_data.upper_ci[i], Den)],
                      lower_ci |-> [i \in 1..horizon |->
                                      RoundDiv(100 * prediction_data.lower_ci[i], Den)]]]

(***************************************************************************)
(* prediction_service.py: main                                             *)
(***************************************************************************)

EmptyDict == [x \in {} |-> 0]

\* valid_predictions: the companies whose entry has no 'error' key
ValidPredictions(res) == {c \in DOMAIN res : "error" \notin DOMAIN res[c]}

RECURSIVE SumField(_, _, _)
SumField(res, S, k) ==
    IF S = {} THEN 0
    ELSE LET c == CHOOSE c \in S : TRUE IN res[c][k] + SumField(res, S \ {c}, k)

MaxField(res, S, k) == CHOOSE v \in {res[c][k] : c \in S} : \A c \in S : res[c][k] <= v
MinField(res, S, k) == CHOOSE v \in {res[c][k] : c \in S} : \A c \in S : res[c][k] >= v

CountField(res, S, k, v) == Cardinality({c \in S : res[c][k] = v})

\* The all-zero summary with the risk counts left out.
ZeroSummary_noRisk ==
    [totalCompanies |-> 0, averageGain |-> 0, highestGain |-> 0, lowestGain |-> 0,
     bullishCount |-> 0, bearishCount |-> 0, averageVolatility |-> 0]

\* The else branch of lines 217-222.
ZeroSummary ==
    [totalCompanies |-> 0, averageGain |-> 0, highestGain |-> 0, lowestGain |-> 0,
     bullishCount |-> 0, bearishCount |-> 0, averageVolatility |-> 0,
     highRiskCount |-> 0, mediumRiskCount |-> 0, lowRiskCount |-> 0]

\* Summary with totalCompanies counting every entry, error entries too.
Summary_countsAll(res) ==
    LET valid == ValidPredictions(res)
    IN  IF valid = {} THEN [ZeroSummary EXCEPT !.totalCompanies = Cardinality(DOMAIN res)]
        ELSE [totalCompanies |-> Cardinality(DOMAIN res),
              averageGain |-> RoundDiv(SumField(res, valid, "price_change_percent"),
                                       Cardinality(valid)),
              highestGain |-> MaxField(res, valid, "price_change_percent"),
              lowestGain |-> MinField(res, valid, "price_change_percent"),
              bullishCount |-> CountField(res, valid, "market_sentiment", "Bullish"),
              bearishCount |-> CountField(res, valid, "market_sentiment", "Bearish"),
              averageVolatility |-> RoundDiv(SumField(res, valid, "volatility"),
                                             Cardinality(valid)),
              highRiskCount |-> CountField(res, valid, "risk_level", "High"),
              mediumRiskCount |-> CountField(res, valid, "risk_level", "Medium"),
              lowRiskCount |-> CountField(res, valid, "risk_level", "Low")]

\* The summary of lines 199-222.
Summary(res) ==
    LET valid == ValidPredictions(res)
    IN  IF valid = {} THEN ZeroSummary
        ELSE [totalCompanies |-> Cardinality(valid),
              averageGain |-> RoundDiv(SumField(res, valid, "price_change_percent"),
                                       Cardinality(valid)),
              highestGain |-> MaxField(res, valid, "price_change_percent"),
              lowestGain |-> MinField(res, valid, "price_change_percent"),
              bullishCount |-> CountField(res, valid, "market_sentiment", "Bullish"),
              bearishCount |-> CountField(res, valid, "market_sentiment", "Bearish"),
              averageVolatility |-> RoundDiv(SumField(res, valid, "volatility"),
                                             Cardinality(valid)),
              highRiskCount |-> CountField(res, valid, "risk_level", "High"),
              mediumRiskCount |-> CountField(res, valid, "risk_level", "Medium"),
              lowRiskCount |-> CountField(res, valid, "risk_level", "Low")]

\* results[company] = entry, with an error entry discarding the entries
\* stored before it.
StoreResult_errorResets(res, company, entry) ==
    IF "error" \in DOMAIN entry THEN [c \in {company} |-> entry]
    ELSE [c \in DOMAIN res \cup {company} |-> IF c = company THEN entry ELSE res[c]]

\* results[company] = entry (line 196)
StoreResult(res, company, entry) ==
    [c \in DOMAIN res \cup {company} |-> IF c = company THEN entry ELSE res[c]]

\* What lines 190-192 raise on the command line, if anything.
ParseError(req) ==
    IF req.kind = "no_argument" THEN "IndexError"
    ELSE IF req.kind = "not_json" THEN "JSONDecodeError"
    ELSE IF "companies" \notin DOMAIN req.body THEN "KeyError: 'companies'"
    ELSE IF "targetDate" \notin DOMAIN req.body THEN "KeyError: 'targetDate'"
    ELSE "none"

(***************************************************************************)
(* Batch requests                                                          *)
(***************************************************************************)

MaxCompanies == 3   \* a request names up to MaxCompanies companies
MaxTarget    == 1   \* target dates go from day 0 (today at the start) on

CompanyNames == {"Apple Inc", "IBM", "Acme Corp"}

TargetDates == {[text |-> "soon"]} \cup {[day |-> d] : d \in 0..MaxTarget}

RequestBodies ==
    {[companies |-> l, targetDate |-> t] :
        l \in UNION {[1..n -> CompanyNames] : n \in 0..MaxCompanies},
        t \in TargetDates}
    \cup {[companies |-> <<"IBM">>], [targetDate |-> [day |-> 1]]}

RequestInputs ==
    {[kind |-> "no_argument"], [kind |-> "not_json"]}
    \cup {[kind |-> "json", body |-> b] : b \in RequestBodies}

InitBatch ==
    /\ pc = "main"
    /\ request \in RequestInputs
    /\ today = 0 /\ results = EmptyDict /\ idx = 0
    /\ batch_out = None /\ exit_code = -1
    /\ RadaptIdle /\ ForecastIdle /\ AnalysisIdle /\ HealthIdle

\* Lines 190-194: read the request; a malformed one goes to the except
\* branch of main, which prints the error document. main returns normally.
Parse ==
    /\ pc = "main"
    /\ IF ParseError(request) # "none"
       THEN /\ batch_out' = [predictions |-> EmptyDict, summary |-> EmptyDict,
                             error |-> ParseError(request)]
            /\ exit_code' = 0
            /\ pc' = "exit"
       ELSE /\ pc' = "loop"
            /\ UNCHANGED <<batch_out, exit_code>>
    /\ UNCHANGED <<request, today, results, idx, radapt_vars, forecast_vars,
                   analysis_vars, health_vars>>

\* Lines 195-196, one pass of the loop. The mock data and the outcome of the
\* fit are drawn here; today is read from the clock inside analyze_company.
Analyze ==
    /\ pc = "loop"
    /\ idx < Len(request.body.companies)
    /\ \E g \in MockDraws :
          \E f \in FitOutcomes(generate_mock_historical_data(MockDays, g)) :
             LET company == request.body.companies[idx + 1]
             IN  results' = StoreResult(results, company,
                                analyze_company(company, request.body.targetDate,
                                                today, g, f))
    /\ idx' = idx + 1
    /\ UNCHANGED <<pc, request, today, batch_out, exit_code, radapt_vars,
                   forecast_vars, analysis_vars, health_vars>>

\* Midnight passes while the loop runs. Once the target date is reached every
\* later analysis fails alike, so the clock is followed no further.
Midnight ==
    /\ pc = "loop"
    /\ "day" \in DOMAIN request.body.targetDate
    /\ today < request.body.targetDate.day
    /\ today' = today + 1
    /\ UNCHANGED <<pc, request, results, idx, batch_out, exit_code,
                   radapt_vars, forecast_vars, analysis_vars, health_vars>>

\* Lines 198-232: the summary and the printed document; main returns.
Summarize ==
    /\ pc = "loop"
    /\ idx = Len(request.body.companies)
    /\ batch_out' = [predictions |-> results,
                     summary |-> Summary(results),
                     analysisDate |-> today,
                     targetDate |-> request.body.targetDate,
                     companiesAnalyzed |-> Len(request.body.companies)]
    /\ exit_code' = 0
    /\ pc' = "exit"
    /\ UNCHANGED <<request, today, results, idx, radapt_vars, forecast_vars,
                   analysis_vars, health_vars>>

NextBatch == Parse \/ Analyze \/ Midnight \/ Summarize

SpecBatch == InitBatch /\ [][NextBatch]_vars

(***************************************************************************)
(* Claims on the batch path                                                *)
(***************************************************************************)

\* main read a well-formed request.
WellFormedRequest == pc \in {"loop", "exit"} /\ ParseError(request) = "none"

\* The step is one pass of the loop of main.
AnalyzeStep == pc = "loop" /\ idx' = idx + 1

Requested == {request.body.companies[i] : i \in 1..Len(request.body.companies)}

IsError(entry) == "error" \in DOMAIN entry

\* Every company analysed so far has its entry, and the printed document
\* holds an entry for every requested company.
C5_Inv ==
    WellFormedRequest =>
        /\ DOMAIN results = {request.body.companies[i] : i \in 1..idx}
        /\ pc = "exit" =>
              /\ ~IsError(batch_out)
              /\ batch_out.predictions = results
              /\ DOMAIN batch_out.predictions = Requested

\* Analysing one company leaves every other company's entry as it was, and
\* its own entry is an error entry only when its own analysis failed.
C5_Step ==
    AnalyzeStep =>
        LET company == request.body.companies[idx']
            t       == request.body.targetDate
        IN  /\ \A c \in DOMAIN results \ {company} :
                  c \in DOMAIN results' /\ results'[c] = results[c]
            /\ company \in DOMAIN results'
            /\ DOMAIN results'[company] = {"error"}
                  <=> ("day" \notin DOMAIN t \/ t.day - today <= 0)

\* C5: a failure while analysing one instrument is captured as an {error}
\* entry for that instrument only: predictions has an entry for every
\* requested instrument, and the entries of the other instruments are what
\* they are without the failing one (none skipped, cancelled or turned into
\* an error).
C5_FailureIsPerInstrument == []C5_Inv /\ [][C5_Step]_vars

\* Three different companies: the first two analysed, the third failed.
C5_Witness ==
    /\ pc = "exit" /\ WellFormedRequest
    /\ Len(request.body.companies) = 3 /\ Cardinality(Requested) = 3
    /\ ~IsError(batch_out.predictions[request.body.companies[1]])
    /\ ~IsError(batch_out.predictions[request.body.companies[2]])
    /\ IsError(batch_out.predictions[request.body.companies[3]])

\* The summary of the printed document ranges over the entries without an
\* error field, and over no other.
C6_Inv ==
    (pc = "exit" /\ WellFormedRequest) =>
        LET preds == batch_out.predictions
            ok    == {c \in DOMAIN preds : ~IsError(preds[c])}
            n     == Cardinality(ok)
            sm    == batch_out.summary
        IN  /\ sm.totalCompanies = n
            /\ sm.bullishCount + sm.bearishCount = n
            /\ sm.highRiskCount + sm.mediumRiskCount + sm.lowRiskCount = n
            /\ sm.bullishCount =
                  Cardinality({c \in ok : preds[c].market_sentiment = "Bullish"})
            /\ sm.highRiskCount =
                  Cardinality({c \in ok : preds[c].risk_level = "High"})
            /\ sm.lowRiskCount =
                  Cardinality({c \in ok : preds[c].risk_level = "Low"})
            /\ n > 0 =>
                  /\ \E c \in ok : sm.highestGain = preds[c].price_change_percent
                  /\ \E c \in ok : sm.lowestGain = preds[c].price_change_percent
                  /\ \A c \in ok :
                        /\ preds[c].price_change_percent <= sm.highestGain
                        /\ preds[c].price_change_percent >= sm.lowestGain
                  /\ sm.lowestGain <= sm.averageGain
                  /\ sm.averageGain <= sm.highestGain
                  /\ 2 * Abs(n * sm.averageGain
                             - SumField(preds, ok, "price_change_percent")) <= n
                  /\ 2 * Abs(n * sm.averageVolatility
                             - SumField(preds, ok, "volatility")) <= n

\* An instrument whose analysis fails gets an entry with an error field.
C6_Step ==
    AnalyzeStep =>
        LET t == request.body.targetDate
        IN  ("day" \notin DOMAIN t \/ t.day - today <= 0)
                => IsError(results'[request.body.companies[idx']])

\* C6: the summary is computed over exactly the entries of predictions with
\* no error field: totalCompanies is their number, bullishCount +
\* bearishCount and the three risk counts each add up to it, the gain and
\* volatility aggregates range over them only; a failing instrument's entry
\* has an error field and adds to no summary field.
C6_SummaryOverSuccesses == []C6_Inv /\ [][C6_Step]_vars

\* Three instruments, one error entry: the summary counts the two successes.
C6_Witness ==
    /\ pc = "exit" /\ WellFormedRequest
    /\ Cardinality(DOMAIN batch_out.predictions) = 3
    /\ Cardinality({c \in DOMAIN batch_out.predictions :
                       IsError(batch_out.predictions[c])}) = 1
    /\ batch_out.summary.totalCompanies = 2
    /\ batch_out.summary.highestGain > batch_out.summary.lowestGain

C7_Inv ==
    (pc = "exit" /\ WellFormedRequest) =>
        /\ ~IsError(batch_out)
        /\ DOMAIN batch_out.predictions = Requested

C7_Step ==
    AnalyzeStep =>
        LET company == request.body.companies[idx']
            t       == request.body.targetDate
            entry   == results'[company]
        IN  /\ pc' = "loop"
            /\ "day" \notin DOMAIN t => IsError(entry)
            /\ ("day" \in DOMAIN t /\ t.day - today <= 0) => IsError(entry)
            /\ ("day" \in DOMAIN t /\ t.day - today > 0
                   /\ company \notin DOMAIN COMPANY_SYMBOLS)
               => (~IsError(entry) /\ entry.symbol = "UNKNOWN")

SummaryFields ==
    {"totalCompanies", "averageGain", "highestGain", "lowestGain", "bullishCount",
     "bearishCount", "averageVolatility", "highRiskCount", "mediumRiskCount",
     "lowRiskCount"}

\* C8: when no instrument is analysed successfully (every entry is an error
\* entry, or the list is empty) the batch still returns a normal response,
\* with every summary field zero.
C8_ZeroSummary ==
    (pc = "exit" /\ WellFormedRequest
        /\ \A c \in DOMAIN results : IsError(results[c])) =>
        /\ exit_code = 0
        /\ ~IsError(batch_out)
        /\ batch_out.predictions = results
        /\ batch_out.companiesAnalyzed = Len(request.body.companies)
        /\ DOMAIN batch_out.summary = SummaryFields
        /\ \A k \in SummaryFields : batch_out.summary[k] = 0

\* A batch of two or more instruments that all failed.
C8_Witness ==
    /\ pc = "exit" /\ WellFormedRequest
    /\ Cardinality(DOMAIN results) >= 2
    /\ \A c \in DOMAIN results : IsError(results[c])
    /\ batch_out.summary.totalCompanies = 0

(***************************************************************************)
(* analyze_company statement by statement: one call, from the mock data to *)
(* the returned entry, with the fit of predict_with_arima a step of its    *)
(* own.                                                                    *)
(***************************************************************************)

AnalyzeInputs ==
    {[company_name |-> c, target_date |-> t] :
        c \in {"IBM", "Acme Corp"},
        t \in {[text |-> "soon"]} \cup {[day |-> d] : d \in 0..MaxHorizon}}

InitAnalyze ==
    /\ pc = "analyze"
    /\ request \in AnalyzeInputs
    /\ today \in 0..1
    /\ prices = <<>> /\ days_ahead = 0 /\ fit = None /\ forecast_out = None
    /\ results = EmptyDict /\ idx = 0 /\ batch_out = None /\ exit_code = -1
    /\ RadaptIdle /\ AnalysisIdle /\ HealthIdle

\* Lines 107-108: the mock data.
AnalyzeMock ==
    /\ pc = "analyze"
    /\ \E g \in MockDraws : prices' = generate_mock_historical_data(MockDays, g)
    /\ pc' = "analyze_dates"
    /\ UNCHANGED <<days_ahead, fit, forecast_out, radapt_vars, batch_vars,
                   analysis_vars, health_vars>>

\* Lines 111-116: the horizon and its test; a ValueError goes to the except
\* branch of line 184, which returns the error entry.
AnalyzeDates ==
    /\ pc = "analyze_dates"
    /\ LET err == DateError(request.company_name, request.target_date, today)
       IN  /\ days_ahead' = IF "day" \in DOMAIN request.target_date
                            THEN request.target_date.day - today ELSE days_ahead
           /\ IF err # "none"
              THEN results' = [error |-> err] /\ pc' = "analyze_done"
              ELSE results' = results /\ pc' = "analyze_fit"
    /\ UNCHANGED <<prices, fit, forecast_out, request, today, idx, batch_out,
                   exit_code, radapt_vars, analysis_vars, health_vars>>

\* Line 122 entering predict_with_arima, lines 73-74: the model is fitted.
AnalyzeFit ==
    /\ pc = "analyze_fit"
    /\ fit' \in FitOutcomes(prices)
    /\ pc' = "analyze_forecast"
    /\ UNCHANGED <<prices, days_ahead, forecast_out, radapt_vars, batch_vars,
                   analysis_vars, health_vars>>

\* Lines 77-99 and 123-183: the forecast (the fallback when the fit raised)
\* and the entry returned.
AnalyzeForecast ==
    /\ pc = "analyze_forecast"
    /\ forecast_out' = predict_with_arima(prices, days_ahead, fit)
    /\ \E g \in MockDraws :
          /\ generate_mock_historical_data(MockDays, g) = prices
          /\ results' = analyze_company(request.company_name, request.target_date,
                                        today, g, fit)
    /\ pc' = "analyze_done"
    /\ UNCHANGED <<prices, days_ahead, fit, request, today, idx, batch_out,
                   exit_code, radapt_vars, analysis_vars, health_vars>>

NextAnalyze == AnalyzeMock \/ AnalyzeDates \/ AnalyzeFit \/ AnalyzeForecast

SpecAnalyze == InitAnalyze /\ [][NextAnalyze]_vars

MaxVolatility == 60   \* whole percents up to MaxVolatility, and 1000 percent

VolatilityInputs ==
    {100 * k : k \in 0..MaxVolatility}
    \cup {100 * k - 1 : k \in 1..MaxVolatility}
    \cup {100 * k + 1 : k \in 0..MaxVolatility}
    \cup {333, 334, 2666, 2667, 100000}

InitRisk ==
    /\ pc = "assess"
    /\ volatility_in \in VolatilityInputs
    /\ risk_out = None /\ confidence_out = None /\ technical_out = None
    /\ RadaptIdle /\ ForecastIdle /\ BatchIdle /\ HealthIdle

\* Lines 134-142 and the rounding of line 164.
Assess ==
    /\ pc = "assess"
    /\ risk_out' = RiskBucket(volatility_in)
    /\ confidence_out' = Confidence(volatility_in)
    /\ pc' = "assessed"
    /\ UNCHANGED <<volatility_in, technical_out, radapt_vars, forecast_vars,
                   batch_vars, health_vars>>

SpecRisk == InitRisk /\ [][Assess]_vars

\* C12: the risk bucket is Low iff volatility < 20, Medium iff
\* 20 <= volatility < 35 and High iff volatility >= 35 (so exactly 20 is
\* Medium and exactly 35 is High), and is always one of the three.
C12_RiskBuckets ==
    pc = "assessed" =>
        /\ risk_out \in {"Low", "Medium", "High"}
        /\ (risk_out = "Low") <=> (volatility_in < 2000)
        /\ (risk_out = "Medium") <=> (2000 <= volatility_in /\ volatility_in < 3500)
        /\ (risk_out = "High") <=> (volatility_in >= 3500)

\* A volatility of exactly 20 percent, bucketed Medium.
C12_Witness ==
    pc = "assessed" /\ volatility_in = 2000 /\ risk_out = "Medium"

\* C13: for every volatility, 0 and 1000 percent included, the confidence is
\* 100 - 1.5 * volatility clamped into [60, 95] (reported to one decimal),
\* so it always lies between 60 and 95 inclusive.
C13_ConfidenceClamp ==
    pc = "assessed" =>
        LET raw == 100000 - 15 * volatility_in    \* thousandths
        IN  /\ 600 <= confidence_out /\ confidence_out <= 950
            /\ raw >= 95000 => confidence_out = 950
            /\ raw <= 60000 => confidence_out = 600
            /\ (60000 < raw /\ raw < 95000) =>
                   Abs(100 * confidence_out - raw) <= 50

\* A volatility of 1000 percent, with the confidence held at 60.
C13_Witness ==
    pc = "assessed" /\ volatility_in = 100000 /\ confidence_out = 600

(***************************************************************************)
(* calculate_technical_indicators on its own, over price series of 1 to    *)
(* MaxBars bars.                                                           *)
(***************************************************************************)

MaxBars == 17   \* the longest series; the RSI window is 14 deltas, 15 bars

\* n prices from BasePrice: the first k deltas are d1, the others d2.
PriceSteps(n, k, d1, d2) ==
    [i \in 1..n |-> BasePrice
                    + d1 * (IF i - 1 < k THEN i - 1 ELSE k)
                    + d2 * (IF i - 1 > k THEN i - 1 - k ELSE 0)]

TechnicalInputs ==
    {PriceSteps(n, k, d1, d2) :
        n \in {1, 2, 3, 14, 15} \cup 16..MaxBars, k \in {0, 1, 2, 8},
        d1 \in {-1, 0, 1}, d2 \in {-1, 0, 1}}

InitTechnical ==
    /\ pc = "technical"
    /\ prices \in TechnicalInputs
    /\ days_ahead = 0 /\ fit = None /\ forecast_out = None
    /\ AnalysisIdle /\ RadaptIdle /\ BatchIdle /\ HealthIdle

\* Line 119: technical = calculate_technical_indicators(prices)
Technical ==
    /\ pc = "technical"
    /\ technical_out' = calculate_technical_indicators(prices)
    /\ pc' = "technical_done"
    /\ UNCHANGED <<volatility_in, risk_out, confidence_out, radapt_vars,
                   forecast_vars, batch_vars, health_vars>>

SpecTechnical == InitTechnical /\ [][Technical]_vars

\* The deltas the RSI averages: the last 14, or all of them when fewer.
RsiWindow == LastN(Diff(prices), 14)

\* C14: for every series of at least one bar the RSI returned lies in
\* [0, 100]: also when the deltas are all gains (it is 100 to two decimals),
\* all losses or all zero (it is 0), or when there is no delta at all (a
\* single bar); and it is the RSI of the last 14 deltas alone, the value the
\* last 15 bars on their own give.
C14_RsiRange ==
    pc = "technical_done" =>
        LET w == RsiWindow
        IN  /\ 0 <= technical_out.rsi /\ technical_out.rsi <= 10000
            /\ (Len(w) > 0 /\ \A i \in 1..Len(w) : w[i] > 0)
                   => technical_out.rsi = 10000
            /\ (Len(w) > 0 /\ \A i \in 1..Len(w) : w[i] <= 0)
                   => technical_out.rsi = 0
            /\ technical_out.rsi
                   = calculate_technical_indicators(LastN(prices, 15)).rsi

\* Seventeen bars: two falling, then fourteen rising; the RSI is 100.
C14_Witness ==
    /\ pc = "technical_done" /\ Len(prices) = 17
    /\ prices[2] < prices[1] /\ prices[3] < prices[2]
    /\ \A i \in 1..Len(RsiWindow) : RsiWindow[i] > 0
    /\ technical_out.rsi = 10000

\* C15: when the request is malformed (no argument, not JSON, or a body
\* lacking companies or targetDate) the service prints an error document
\* with no predictions and the process ends with a non-zero exit status.
C15_MalformedRequestFatal ==
    (pc = "exit" /\ ParseError(request) # "none") =>
        /\ IsError(batch_out)
        /\ batch_out.predictions = EmptyDict
        /\ exit_code # 0

(***************************************************************************)
(* radapt_action on its own, over arbitrary decision results               *)
(***************************************************************************)

MaxConfidence == 12   \* confidence scores go up to MaxConfidence tenths

Decisions == {"STRONG_BUY", "BUY", "HOLD", "SELL", "STRONG_SELL"}

ConfidenceInputs == {100 * k : k \in 0..MaxConfidence} \cup {799, 801}

\* What radapt_decision returns (lines 157-170), and dicts lacking a key.
DecisionInputs ==
    {[phase |-> "Decision", decision |-> d, confidence_score |-> c,
      decision_factors |-> <<>>] : d \in Decisions, c \in ConfidenceInputs}
    \cup {[phase |-> "Decision", confidence_score |-> c] : c \in ConfidenceInputs}
    \cup {[phase |-> "Decision", decision |-> d] : d \in Decisions}
    \cup {[phase |-> "Decision", error |-> "KeyError", decision |-> "HOLD"]}

InitAction ==
    /\ pc = "action"
    /\ decision \in DecisionInputs
    /\ stock_data = <<>> /\ recognition = None /\ assimilation = None
    /\ action = None /\ past = None /\ radapt_out = None
    /\ phases_run = <<>>
    /\ ForecastIdle /\ BatchIdle /\ AnalysisIdle /\ HealthIdle

SpecAction == InitAction /\ [][Action]_vars

\* C16: radapt_action returns exactly one recommended action, fixed by the
\* decision and the confidence_score: STRONG_BUY and BUY give ENTRY / LONG,
\* STRONG_SELL and SELL give EXIT / SHORT, in both cases with urgency HIGH
\* for the STRONG decision and MEDIUM otherwise and position_size FULL iff
\* confidence_score > 0.8, PARTIAL otherwise; HOLD, and a decision result
\* without a decision, give MONITOR / NEUTRAL / LOW / HOLD.
C16_ActionTable ==
    pc = "past" =>
        /\ "error" \notin DOMAIN action
        /\ Len(action.recommended_actions) = 1
        /\ LET a    == action.recommended_actions[1]
               d    == IF "decision" \in DOMAIN decision
                       THEN decision.decision ELSE "HOLD"
               c    == IF "confidence_score" \in DOMAIN decision
                       THEN decision.confidence_score ELSE 0
               size == IF c > 800 THEN "FULL" ELSE "PARTIAL"
           IN  /\ d = "STRONG_BUY" =>
                     a = [action_type |-> "ENTRY", direction |-> "LONG",
                          urgency |-> "HIGH", position_size |-> size]
               /\ d = "BUY" =>
                     a = [action_type |-> "ENTRY", direction |-> "LONG",
                          urgency |-> "MEDIUM", position_size |-> size]
               /\ d = "STRONG_SELL" =>
                     a = [action_type |-> "EXIT", direction |-> "SHORT",
                          urgency |-> "HIGH", position_size |-> size]
               /\ d = "SELL" =>
                     a = [action_type |-> "EXIT", direction |-> "SHORT",
                          urgency |-> "MEDIUM", position_size |-> size]
               /\ d = "HOLD" =>
                     a = [action_type |-> "MONITOR", direction |-> "NEUTRAL",
                          urgency |-> "LOW", position_size |-> "HOLD"]

\* STRONG_SELL at a confidence of exactly 0.8: EXIT, HIGH, PARTIAL.
C16_Witness ==
    /\ pc = "past"
    /\ "decision" \in DOMAIN decision /\ decision.decision = "STRONG_SELL"
    /\ "confidence_score" \in DOMAIN decision /\ decision.confidence_score = 800
    /\ action.recommended_actions[1].action_type = "EXIT"
    /\ action.recommended_actions[1].urgency = "HIGH"
    /\ action.recommended_actions[1].position_size = "PARTIAL"

(***************************************************************************)
(* radapt_transfer on its own, over arbitrary phase results                *)
(***************************************************************************)

\* What radapt_past_analysis returns: the success dict of lines 263-270 with
\* a volatility_score (unit 0.0001), and its two error dicts.
PastInputs ==
    {[phase |-> "PAST", symbol |-> Symbol, historical_patterns |-> <<"NEAR_SUPPORT">>,
      analysis_period |-> 30, volatility_score |-> v] :
        v \in {0, 299, 300, 301, 499, 500, 501, 1000}}
    \cup {[phase |-> "PAST", error |-> "Insufficient historical data",
           patterns |-> <<>>],
          [phase |-> "PAST", error |-> "TypeError", historical_patterns |-> <<>>]}

InitTransfer ==
    /\ pc = "transfer"
    /\ decision \in {d \in DecisionInputs :
                        Get(d, "decision", "STRONG_BUY") \in {"STRONG_BUY", "HOLD"}
                        /\ Get(d, "confidence_score", 0) \in {0, 799, 800, 801, 1000}}
    /\ past \in PastInputs
    /\ action = radapt_action(decision, Symbol)
    /\ recognition = [phase |-> "Recognition", signals |-> <<>>, data_points |-> 30]
    /\ assimilation = [phase |-> "Assimilation", insights |-> <<>>,
                       processed_signals |-> 0]
    /\ stock_data = <<>> /\ radapt_out = None /\ phases_run = <<>>
    /\ ForecastIdle /\ BatchIdle /\ AnalysisIdle /\ HealthIdle

SpecTransfer == InitTransfer /\ [][Transfer]_vars

\* C17: radapt_transfer sets risk_level from the PAST result's
\* volatility_score v (0 when there is none): HIGH iff v > 0.05, MEDIUM iff
\* 0.03 < v <= 0.05, LOW otherwise; execution_timeline is IMMEDIATE iff the
\* Decision result's confidence_score > 0.8 and MONITOR otherwise; and the
\* five phase results are embedded unchanged in radapt_analysis.
C17_TransferRisk ==
    pc = "done" =>
        LET t == radapt_out.radapt_complete
            v == IF "volatility_score" \in DOMAIN past
                 THEN past.volatility_score ELSE 0
            c == IF "confidence_score" \in DOMAIN decision
                 THEN decision.confidence_score ELSE 0
        IN  /\ "error" \notin DOMAIN t
            /\ t.risk_assessment.risk_level \in {"HIGH", "MEDIUM", "LOW"}
            /\ (t.risk_assessment.risk_level = "HIGH") <=> (v > 500)
            /\ (t.risk_assessment.risk_level = "MEDIUM") <=> (300 < v /\ v <= 500)
            /\ t.consolidated_recommendation.execution_timeline
                   \in {"IMMEDIATE", "MONITOR"}
            /\ (t.consolidated_recommendation.execution_timeline = "IMMEDIATE")
                   <=> (c > 800)
            /\ t.radapt_analysis = [recognition |-> recognition,
                                    assimilation |-> assimilation,
                                    decision |-> decision, action |-> action,
                                    past |-> past]

\* A volatility_score of exactly 0.05 with a confidence just above 0.8:
\* MEDIUM risk, IMMEDIATE execution.
C17_Witness ==
    /\ pc = "done"
    /\ "volatility_score" \in DOMAIN past /\ past.volatility_score = 500
    /\ "confidence_score" \in DOMAIN decision /\ decision.confidence_score = 801
    /\ radapt_out.radapt_complete.risk_assessment.risk_level = "MEDIUM"
    /\ radapt_out.radapt_complete.consolidated_recommendation.execution_timeline
          = "IMMEDIATE"

(***************************************************************************)
(* Claims on the signals and the consolidated recommendation               *)
(***************************************************************************)

\* The row of the series carrying the k-th date (the dates of a series are
\* 1..n, in any order).
RowDated(k) == stock_data[CHOOSE i \in 1..Len(stock_data) : stock_data[i].date = k]

TotalVolume == SumSeq([i \in 1..Len(stock_data) |-> stock_data[i].volume])

\* C18: for a series of complete bars the signals are fixed by the series
\* in date order: UPTREND_PATTERN iff there are at least 5 points and the
\* last 5 closes rise strictly, DOWNTREND_PATTERN iff at least 5 points and
\* they fall strictly (never both), VOLUME_SPIKE iff there are at least 10
\* points and the latest volume is more than twice the mean volume,
\* HIGH_VOLATILITY only with at least 20 points; fewer than 5 points give no
\* signal at all.
C18_RecognitionSignals ==
    (WellFormedSeries /\ Len(stock_data) >= 1 /\ pc # "recognition") =>
        LET n    == Len(stock_data)
            sig  == recognition.signals
            up   == n >= 5 /\ \A k \in (n - 3)..n :
                                  RowDated(k).close > RowDated(k - 1).close
            down == n >= 5 /\ \A k \in (n - 3)..n :
                                  RowDated(k).close < RowDated(k - 1).close
        IN  /\ "error" \notin DOMAIN recognition
            /\ InList("UPTREND_PATTERN", sig) <=> up
            /\ InList("DOWNTREND_PATTERN", sig) <=> down
            /\ ~(InList("UPTREND_PATTERN", sig) /\ InList("DOWNTREND_PATTERN", sig))
            /\ InList("VOLUME_SPIKE", sig)
                   <=> (n >= 10 /\ RowDated(n).volume * n > 2 * TotalVolume)
            /\ InList("HIGH_VOLATILITY", sig) => n >= 20
            /\ n < 5 => sig = <<>>
            /\ \A i \in 1..Len(sig) :
                   sig[i] \in {"UPTREND_PATTERN", "DOWNTREND_PATTERN",
                               "VOLUME_SPIKE", "HIGH_VOLATILITY"}

\* Ten bars that end rising, with a volume spike on the latest date.
C18_Witness ==
    /\ WellFormedSeries /\ pc = "done" /\ Len(stock_data) = 10
    /\ recognition.signals = <<"UPTREND_PATTERN", "VOLUME_SPIKE">>

\* C19: in every consolidated recommendation of process_radapt,
\* execution_timeline is IMMEDIATE iff primary_decision is STRONG_BUY, and
\* the recommended action has position_size FULL iff primary_decision is
\* STRONG_BUY; a STRONG_SELL recommendation has urgency HIGH, position_size
\* PARTIAL and execution_timeline MONITOR, its score being exactly -0.8.
C19_ImmediateIffStrongBuy ==
    pc = "done" =>
        LET c == radapt_out.radapt_complete.consolidated_recommendation
        IN  /\ radapt_out.success = TRUE
            /\ (c.execution_timeline = "IMMEDIATE") <=> (c.primary_decision = "STRONG_BUY")
            /\ Len(c.recommended_actions) = 1
            /\ (c.recommended_actions[1].position_size = "FULL")
                   <=> (c.primary_decision = "STRONG_BUY")
            /\ c.primary_decision = "STRONG_SELL" =>
                   /\ c.recommended_actions[1].urgency = "HIGH"
                   /\ c.recommended_actions[1].position_size = "PARTIAL"
                   /\ c.execution_timeline = "MONITOR"
                   /\ c.confidence_level = 800
                   /\ DecisionScore(assimilation.insights) = -800

\* A STRONG_SELL recommendation: urgent, but partial and not immediate.
C19_Witness ==
    /\ pc = "done"
    /\ radapt_out.radapt_complete.consolidated_recommendation.primary_decision
          = "STRONG_SELL"
    /\ radapt_out.radapt_complete.consolidated_recommendation.execution_timeline
          = "MONITOR"
    /\ radapt_out.radapt_complete.consolidated_recommendation
          .recommended_actions[1].position_size = "PARTIAL"

(***************************************************************************)
(* health_check.py                                                         *)
(*                                                                         *)
(* What is installed and whether the network answers is the environment's  *)
(* choice. A package whose import raised ImportError in check_dependencies *)
(* raises it again when a test function imports it.                        *)
(***************************************************************************)

\* required_packages of lines 13-16
required_packages ==
    {"numpy", "pandas", "yfinance", "statsmodels", "sklearn", "warnings",
     "datetime", "json"}

\* The packages that may be absent: the others belong to the interpreter.
ThirdParty == required_packages \ {"warnings", "datetime", "json"}

\* The packages test_model_libraries imports, lines 67-71.
ModelPackages == {"numpy", "pandas", "statsmodels", "sklearn"}

InitHealth ==
    /\ pc = "check_dependencies"
    /\ missing_packages = {} /\ data_test_success = None
    /\ model_test_success = None /\ health_exit = -1
    /\ health_status = [status |-> "healthy", checks |-> EmptyDict]
    /\ RadaptIdle /\ ForecastIdle /\ BatchIdle /\ AnalysisIdle

\* Lines 115-127. An import that raises something other than ImportError is
\* not caught by check_dependencies and ends in the except branch of main.
CheckDependencies ==
    /\ pc = "check_dependencies"
    /\ \/ \E missing \in SUBSET ThirdParty :
             /\ missing_packages' = missing
             /\ health_status' =
                   [health_status EXCEPT
                      !.status = IF missing # {} THEN "unhealthy" ELSE @,
                      !.checks = StoreResult(@, "dependencies",
                                    IF missing # {} THEN "failed" ELSE "passed")]
             /\ pc' = "test_data_fetching"
             /\ UNCHANGED health_exit
       \/ /\ health_status' = [status |-> "unhealthy",
                                message |-> "Health check script failed",
                                error |-> "Exception"]
          /\ health_exit' = 1
          /\ pc' = "health_exit"
          /\ UNCHANGED missing_packages
    /\ UNCHANGED <<data_test_success, model_test_success, radapt_vars,
                   forecast_vars, batch_vars, analysis_vars>>

\* Lines 130-137: the fetch fails without yfinance, and may fail with it.
TestDataFetching ==
    /\ pc = "test_data_fetching"
    /\ \E ok \in (IF "yfinance" \in missing_packages THEN {FALSE} ELSE BOOLEAN) :
          /\ data_test_success' = ok
          /\ health_status' =
                [health_status EXCEPT
                   !.status = IF ~ok THEN "degraded" ELSE @,
                   !.checks = StoreResult(@, "data_fetching",
                                 IF ok THEN "passed" ELSE "failed")]
    /\ pc' = "test_model_libraries"
    /\ UNCHANGED <<missing_packages, model_test_success, health_exit, radapt_vars,
                   forecast_vars, batch_vars, analysis_vars>>

\* Lines 140-147: the test fails when a package it imports is missing, and
\* may fail otherwise.
TestModelLibraries ==
    /\ pc = "test_model_libraries"
    /\ \E ok \in (IF ModelPackages \cap missing_packages # {}
                   THEN {FALSE} ELSE BOOLEAN) :
          /\ model_test_success' = ok
          /\ health_status' =
                [health_status EXCEPT
                   !.status = IF ~ok THEN "unhealthy" ELSE @,
                   !.checks = StoreResult(@, "modeling_libraries",
                                 IF ok THEN "passed" ELSE "failed")]
    /\ pc' = "overall_assessment"
    /\ UNCHANGED <<missing_packages, data_test_success, health_exit, radapt_vars,
                   forecast_vars, batch_vars, analysis_vars>>

\* Lines 150-165: the message, the printed document and sys.exit.
OverallAssessment ==
    /\ pc = "overall_assessment"
    /\ health_status' =
          [x \in DOMAIN health_status \cup {"message"} |->
              IF x # "message" THEN health_status[x]
              ELSE IF health_status.status = "healthy" THEN "All systems operational"
              ELSE IF health_status.status = "degraded"
                   THEN "Some non-critical issues detected"
                   ELSE "Critical issues detected"]
    /\ health_exit' = IF health_status.status = "unhealthy" THEN 1
                      ELSE IF health_status.status = "degraded" THEN 2 ELSE 0
    /\ pc' = "health_exit"
    /\ UNCHANGED <<missing_packages, data_test_success, model_test_success,
                   radapt_vars, forecast_vars, batch_vars, analysis_vars>>

NextHealth ==
    CheckDependencies \/ TestDataFetching \/ TestModelLibraries \/ OverallAssessment

SpecHealth == InitHealth /\ [][NextHealth]_vars

\* C20: the final status is monotone in severity over the three checks: with
\* a required package missing or the modeling-library test failed the final
\* status is unhealthy and the exit code 1; degraded with exit code 2 only
\* when data fetching is the sole failed check; healthy with exit code 0 only
\* when all three checks pass.
C20_HealthSeverity ==
    pc = "health_exit" =>
        IF "checks" \notin DOMAIN health_status    \* the script itself failed
        THEN health_status.status = "unhealthy" /\ health_exit = 1
        ELSE
        /\ (missing_packages # {} \/ ~model_test_success) =>
               (health_status.status = "unhealthy" /\ health_exit = 1)
        /\ (health_status.status = "degraded" \/ health_exit = 2) =>
               /\ health_status.status = "degraded" /\ health_exit = 2
               /\ missing_packages = {}
               /\ ~data_test_success /\ model_test_success
        /\ (health_status.status = "healthy" \/ health_exit = 0) =>
               /\ health_status.status = "healthy" /\ health_exit = 0
               /\ missing_packages = {}
               /\ data_test_success /\ model_test_success

\* C21: for every batch request, lists naming a company more than once
\* included, companiesAnalyzed equals the number of entries of predictions,
\* and equals summary.totalCompanies plus the number of error entries.
C21_CountMatchesPredictions ==
    (pc = "exit" /\ WellFormedRequest) =>
        LET preds  == batch_out.predictions
            errors == {c \in DOMAIN preds : IsError(preds[c])}
        IN  /\ batch_out.companiesAnalyzed = Cardinality(DOMAIN preds)
            /\ batch_out.companiesAnalyzed
                   = batch_out.summary.totalCompanies + Cardinality(errors)

====
